---- MODULE Spec2Model ----
(***************************************************************************)
(* A model of the lgmath value wrappers so3::Rotation (Rotation.cpp) and   *)
(* se3::Transformation (Transformation.cpp).                               *)
(*                                                                         *)
(* Numbers.  A double x is carried to first order in the drift unit        *)
(* u = 1e-7 as the pair <<a, b>> = a + b*u, with a and b integers and the  *)
(* term u*u dropped.  Sums and products are those of the reals modulo u*u; *)
(* comparisons are lexicographic, which is the order of the reals as long  *)
(* as |b| stays far below 1e7 (it stays below a few hundred here).  An     *)
(* exact rotation matrix has b = 0 everywhere; a matrix that has drifted   *)
(* off SO(3) has b # 0.                                                    *)
(*                                                                         *)
(* Angles.  Axis-angle vectors handed to the exponential map are integer   *)
(* vectors in units of a quarter turn (pi/2) with one non-zero component;  *)
(* the logarithm of a matrix is kept in the form rot2vec computes it (see  *)
(* rot2vec below).                                                         *)
(***************************************************************************)
EXTENDS Integers, Sequences, FiniteSets, TLC

VARIABLES T, R, ret, steps

vars == <<T, R, ret, steps>>

(***************************************************************************)
(* Bounds of the model.                                                    *)
(***************************************************************************)
MaxSteps == 3
MaxDrift == 2
MaxLenSlack == 1

(***************************************************************************)
(* First-order numbers.                                                    *)
(***************************************************************************)
Zero == <<0, 0>>
One == <<1, 0>>
Lift(n) == <<n, 0>>
DAdd(x, y) == <<x[1] + y[1], x[2] + y[2]>>
DNeg(x) == <<0 - x[1], 0 - x[2]>>
DSub(x, y) == <<x[1] - y[1], x[2] - y[2]>>
DMul(x, y) == <<x[1] * y[1], x[1] * y[2] + x[2] * y[1]>>
DLess(x, y) == x[1] < y[1] \/ (x[1] = y[1] /\ x[2] < y[2])
DAbs(x) == IF DLess(x, Zero) THEN DNeg(x) ELSE x

(***************************************************************************)
(* Eigen's fixed-size vectors and matrices: tuples of numbers and tuples   *)
(* of rows.                                                                *)
(***************************************************************************)
Dot3(a, b) == DAdd(DAdd(DMul(a[1], b[1]), DMul(a[2], b[2])), DMul(a[3], b[3]))
Col(M, j) == <<M[1][j], M[2][j], M[3][j]>>
MatVec(M, v) == <<Dot3(M[1], v), Dot3(M[2], v), Dot3(M[3], v)>>
RowMat(a, M) == <<Dot3(a, Col(M, 1)), Dot3(a, Col(M, 2)), Dot3(a, Col(M, 3))>>
MatMul(A, B) == <<RowMat(A[1], B), RowMat(A[2], B), RowMat(A[3], B)>>
Transpose(M) == <<Col(M, 1), Col(M, 2), Col(M, 3)>>
VecScale(s, v) == <<DMul(s, v[1]), DMul(s, v[2]), DMul(s, v[3])>>
MatScale(s, M) == <<VecScale(s, M[1]), VecScale(s, M[2]), VecScale(s, M[3])>>
VecAdd(a, b) == <<DAdd(a[1], b[1]), DAdd(a[2], b[2]), DAdd(a[3], b[3])>>
Minor2(a, b, c, d) == DSub(DMul(a, d), DMul(b, c))
Determinant(M) ==
  DAdd(DSub(DMul(M[1][1], Minor2(M[2][2], M[2][3], M[3][2], M[3][3])),
            DMul(M[1][2], Minor2(M[2][1], M[2][3], M[3][1], M[3][3]))),
       DMul(M[1][3], Minor2(M[2][1], M[2][2], M[3][1], M[3][2])))
ZeroVec == <<Zero, Zero, Zero>>
Identity3 == <<<<One, Zero, Zero>>, <<Zero, One, Zero>>, <<Zero, Zero, One>>>>
LiftVec(v) == <<Lift(v[1]), Lift(v[2]), Lift(v[3])>>
LiftMat(M) == <<LiftVec(M[1]), LiftVec(M[2]), LiftVec(M[3])>>
MainPart(M) == <<<<M[1][1][1], M[1][2][1], M[1][3][1]>>,
                 <<M[2][1][1], M[2][2][1], M[2][3][1]>>,
                 <<M[3][1][1], M[3][2][1], M[3][3][1]>>>>

(* Eigen::Matrix4d and Eigen::Vector4d. *)
Dot4(a, b) == DAdd(Dot3(a, b), DMul(a[4], b[4]))
Col4(M, j) == <<M[1][j], M[2][j], M[3][j], M[4][j]>>
MatVec4(M, v) == <<Dot4(M[1], v), Dot4(M[2], v), Dot4(M[3], v), Dot4(M[4], v)>>
RowMat4(a, M) ==
  <<Dot4(a, Col4(M, 1)), Dot4(a, Col4(M, 2)), Dot4(a, Col4(M, 3)), Dot4(a, Col4(M, 4))>>
MatMul4(A, B) == <<RowMat4(A[1], B), RowMat4(A[2], B), RowMat4(A[3], B), RowMat4(A[4], B)>>
Block33(M) == <<<<M[1][1], M[1][2], M[1][3]>>,
                <<M[2][1], M[2][2], M[2][3]>>,
                <<M[3][1], M[3][2], M[3][3]>>>>
Block31(M) == <<M[1][4], M[2][4], M[3][4]>>
Head3(p) == <<p[1], p[2], p[3]>>

(***************************************************************************)
(* The exponential and logarithmic maps of lgmath/so3/Operations and       *)
(* lgmath/se3/Operations, which the wrappers call.                         *)
(*                                                                         *)
(* An axis-angle vector is [unit, c]: the vector unit * c, where c is an   *)
(* integer vector and unit names a real number:                            *)
(*   "q" = pi/2            (a quarter turn about a coordinate axis),       *)
(*   "d" = 2*pi/(3*sqrt 3) (c in {-1,1}^3 has norm 2*pi/3),                *)
(*   "f" = pi/sqrt 2       (c a face diagonal has norm pi),                *)
(*   "s" = pi/(3*sqrt 3), "e" = pi/4 (logarithms of matrices far from      *)
(*   SO(3) only; their exponentials have irrational entries).              *)
(* On these vectors the closed forms of the maps have integer results.     *)
(* The logarithm reads the matrix to zeroth order in the drift unit: the   *)
(* exponential of the result is an exact rotation matrix.                  *)
(***************************************************************************)
AA(unit, c) == [unit |-> unit, c |-> c]
Abs(n) == IF n < 0 THEN 0 - n ELSE n
Sign(n) == IF n < 0 THEN 0 - 1 ELSE IF n > 0 THEN 1 ELSE 0
NonZeros(c) == Cardinality({i \in 1..3 : c[i] # 0})
SinQ(m) == <<0, 1, 0, 0 - 1>>[(m % 4) + 1]
CosQ(m) == <<1, 0, 0 - 1, 0>>[(m % 4) + 1]
Skew(c) == LiftMat(<<<<0, 0 - c[3], c[2]>>, <<c[3], 0, 0 - c[1]>>, <<0 - c[2], c[1], 0>>>>)
MatAdd(A, B) == <<VecAdd(A[1], B[1]), VecAdd(A[2], B[2]), VecAdd(A[3], B[3])>>
HalfVec(v) == <<Lift(v[1][1] \div 2), Lift(v[2][1] \div 2), Lift(v[3][1] \div 2)>>
HalfMat(M) == <<HalfVec(M[1]), HalfVec(M[2]), HalfVec(M[3])>>
Cross(a, b) == <<a[2] * b[3] - a[3] * b[2], a[3] * b[1] - a[1] * b[3], a[1] * b[2] - a[2] * b[1]>>

(* The vectors whose closed-form exponential is computed exactly here. *)
InExpDomain(phi) ==
  \/ phi.unit = "q" /\ NonZeros(phi.c) <= 1
  \/ phi.unit = "d" /\ \A i \in 1..3 : Abs(phi.c[i]) = 1
  \/ phi.unit = "f" /\ NonZeros(phi.c) = 2 /\ \A i \in 1..3 : Abs(phi.c[i]) <= 1

(* vec2rot: Rodrigues' formula I + sin(t)/t skew(phi) + (1-cos t)/t^2 skew(phi)^2, *)
(* the identity when the angle t is zero. With numTerms > 0 the truncated series  *)
(* I + skew(phi) + ... is used, which is I for phi = 0.                           *)
vec2rot(phi, numTerms) ==
  LET c == phi.c
      m == Abs(c[1]) + Abs(c[2]) + Abs(c[3])
      n == <<Sign(c[1]), Sign(c[2]), Sign(c[3])>>
      K == Skew(n)
      Kc == Skew(c)
  IN  IF m = 0 THEN Identity3
      ELSE IF phi.unit = "q"
        THEN MatAdd(Identity3,
                    MatAdd(MatScale(Lift(SinQ(m)), K),
                           MatScale(Lift(1 - CosQ(m)), MatMul(K, K))))
      ELSE IF phi.unit = "d"
        THEN MatAdd(Identity3, HalfMat(MatAdd(Kc, MatMul(Kc, Kc))))
      ELSE MatAdd(Identity3, MatMul(Kc, Kc))

(* rot2vec: t = acos(clamp((trace - 1)/2)); zero vector at t = 0; at t = pi the  *)
(* axis from the diagonal of (R + I)/2 with signs from the off-diagonal terms;   *)
(* otherwise t/(2 sin t) * vec(R - R^T).                                          *)
rot2vec(C) ==
  LET N == MainPart(C)
      tr == N[1][1] + N[2][2] + N[3][3]
      twoCos == IF tr - 1 > 2 THEN 2 ELSE IF tr - 1 < 0 - 2 THEN 0 - 2 ELSE tr - 1
      v == <<N[3][2] - N[2][3], N[1][3] - N[3][1], N[2][1] - N[1][2]>>
      dg == <<N[1][1] + 1, N[2][2] + 1, N[3][3] + 1>>
      lead == CHOOSE i \in 1..3 : dg[i] > 0 /\ \A j \in 1..(i - 1) : dg[j] <= 0
      axis == [i \in 1..3 |->
                 IF dg[i] <= 0 THEN 0
                 ELSE IF i = lead THEN 1
                 ELSE IF N[lead][i] < 0 THEN 0 - 1 ELSE 1]
  IN  IF twoCos = 2 THEN AA("q", <<0, 0, 0>>)
      ELSE IF twoCos = 0 - 2
        THEN IF \A i \in 1..3 : dg[i] <= 0 THEN AA("x", dg)
             ELSE IF Cardinality({i \in 1..3 : dg[i] > 0}) = 1
               THEN AA("q", <<2 * axis[1], 2 * axis[2], 2 * axis[3]>>)
             ELSE AA("f", <<axis[1], axis[2], axis[3]>>)
      ELSE IF twoCos = 0
        THEN IF \A i \in 1..3 : v[i] % 2 = 0
               THEN AA("q", <<v[1] \div 2, v[2] \div 2, v[3] \div 2>>)
               ELSE AA("e", v)
      ELSE IF twoCos = 0 - 1 THEN AA("d", v)
      ELSE AA("s", v)

(* vec2tran: C = vec2rot(phi), r = J(phi) rho with the left Jacobian              *)
(* J = I + a skew(phi) + b skew(phi)^2, so r = rho when phi x rho = 0.            *)
InTranDomain(xi, numTerms) ==
  /\ InExpDomain(AA("q", <<xi[4], xi[5], xi[6]>>))
  /\ Cross(<<xi[4], xi[5], xi[6]>>, <<xi[1], xi[2], xi[3]>>) = <<0, 0, 0>>
  /\ (numTerms > 0 => <<xi[4], xi[5], xi[6]>> = <<0, 0, 0>>)
vec2tran(xi, numTerms) ==
  [C_ba |-> vec2rot(AA("q", <<xi[4], xi[5], xi[6]>>), numTerms),
   r_ab_inb |-> LiftVec(<<xi[1], xi[2], xi[3]>>)]


(***************************************************************************)
(* Inputs the callers pass.                                                *)
(***************************************************************************)
RotZ == LiftMat(<<<<0, 0 - 1, 0>>, <<1, 0, 0>>, <<0, 0, 1>>>>)
RotX == LiftMat(<<<<1, 0, 0>>, <<0, 0, 0 - 1>>, <<0, 1, 0>>>>)
Stretch == LiftMat(<<<<2, 0, 0>>, <<0, 1, 0>>, <<0, 0, 1>>>>)
Shear == LiftMat(<<<<1, 1, 0>>, <<0, 1, 0>>, <<0, 0, 1>>>>)
(* M scaled by 1 + k*u: a rotation matrix that has drifted by k units. *)
DriftNum(x, k) == <<x[1], x[2] + k * x[1]>>
DriftVec(v, k) == <<DriftNum(v[1], k), DriftNum(v[2], k), DriftNum(v[3], k)>>
Drifted(M, k) == <<DriftVec(M[1], k), DriftVec(M[2], k), DriftVec(M[3], k)>>
MatInputs == {RotZ, Drifted(RotX, MaxDrift), Stretch, Shear}
VecInputs == {LiftVec(<<1, 2, 3>>), LiftVec(<<0, 0, 1>>)}
Matrix4Of(C, r) == <<<<C[1][1], C[1][2], C[1][3], r[1]>>,
                     <<C[2][1], C[2][2], C[2][3], r[2]>>,
                     <<C[3][1], C[3][2], C[3][3], r[3]>>,
                     <<Zero, Zero, Zero, One>>>>
Matrix4Inputs == {Matrix4Of(C, LiftVec(<<1, 2, 3>>)) : C \in MatInputs}
PointInputs == {<<One, Zero, Lift(2), One>>, <<One, Zero, Lift(2), Zero>>,
                <<Zero, One, Zero, Lift(2)>>}
XiInputs == {<<2, 0, 0, 1, 0, 0>>, <<1, 2, 3, 0, 0, 0>>}
TermInputs == {0, 1}
Resize(v, n) == [k \in 1..n |-> IF k <= Len(v) THEN v[k] ELSE 0]
XiDynInputs == {Resize(xi, n) : xi \in XiInputs, n \in (6 - MaxLenSlack)..(6 + MaxLenSlack)}

(***************************************************************************)
(* se3::Transformation.                                                    *)
(***************************************************************************)
TfIds == {"A", "B"}
None == "none"
Tf(C, r) == [C_ba |-> C, r_ab_inb |-> r]
TfIdentity == Tf(Identity3, ZeroVec)

(* The tolerance 1e-6 of reproject, in units of 1e-7. *)
DetTol == <<0, 10>>

(* reproject's condition: force || fabs(1.0 - det(C_ba_)) > 1e-6. *)
NeedsReprojectStrictTol(C, force) ==
  force \/ DLess(Zero, DAbs(DSub(One, Determinant(C))))
NeedsReproject(C, force) ==
  force \/ DLess(DetTol, DAbs(DSub(One, Determinant(C))))

(* reproject: C_ba_ = vec2rot(rot2vec(C_ba_)) under the condition; r_ab_inb_ is not touched. *)
reproject(t, force) ==
  IF NeedsReproject(t.C_ba, force)
    THEN [t EXCEPT !.C_ba = vec2rot(rot2vec(t.C_ba), 0)]
    ELSE t
(* The calls reproject makes into so3. *)
reprojectCalls(C, force) ==
  IF NeedsReproject(C, force) THEN <<"rot2vec", "vec2rot">> ELSE <<>>
(* The model follows a reprojection only where the exponential is computed exactly. *)
CanReproject(C, force) == NeedsReproject(C, force) => InExpDomain(rot2vec(C))

(* Transformation(const Eigen::Matrix4d& T) *)
FromMatrix4(M) == reproject(Tf(Block33(M), Block31(M)), FALSE)

(* Transformation(const Eigen::Matrix3d& C_ba, const Eigen::Vector3d& r_ba_ina) *)
FromCrUsesInput(C, r_ba_ina) ==
  LET t == reproject(Tf(C, ZeroVec), FALSE)
  IN  [t EXCEPT !.r_ab_inb = MatVec(MatScale(Lift(0 - 1), C), r_ba_ina)]
FromCr(C, r_ba_ina) ==
  LET t == reproject(Tf(C, ZeroVec), FALSE)
  IN  [t EXCEPT !.r_ab_inb = MatVec(MatScale(Lift(0 - 1), t.C_ba), r_ba_ina)]

(* Transformation(const Eigen::VectorXd& xi_ab): the dimension test. *)
XiDimWrongOffByOne(xi) == Len(xi) < 6
XiDimWrong(xi) == Len(xi) # 6

(* matrix() *)
matrix(t) == Matrix4Of(t.C_ba, t.r_ab_inb)

(* r_ba_ina() *)
r_ba_ina(t) == MatVec(MatScale(Lift(0 - 1), Transpose(t.C_ba)), t.r_ab_inb)

(* inverse() *)
inverseNoNegate(t) ==
  LET temp == reproject(Tf(Transpose(t.C_ba), ZeroVec), FALSE)
  IN  [temp EXCEPT !.r_ab_inb = MatVec(temp.C_ba, t.r_ab_inb)]
inverse(t) ==
  LET temp == reproject(Tf(Transpose(t.C_ba), ZeroVec), FALSE)
  IN  [temp EXCEPT !.r_ab_inb = MatVec(MatScale(Lift(0 - 1), temp.C_ba), t.r_ab_inb)]

(* operator*=: the statements in order; T_rhs is a reference, which is *this when aliased. *)
MulAssignNoReproject(self, rhs, aliased) ==
  LET s1 == [self EXCEPT !.r_ab_inb = VecAdd(self.r_ab_inb, MatVec(self.C_ba, rhs.r_ab_inb))]
      rhs1 == IF aliased THEN s1 ELSE rhs
  IN  [s1 EXCEPT !.C_ba = MatMul(s1.C_ba, rhs1.C_ba)]
MulAssignRotationFirst(self, rhs, aliased) ==
  LET s1 == [self EXCEPT !.C_ba = MatMul(self.C_ba, rhs.C_ba)]
      rhs1 == IF aliased THEN s1 ELSE rhs
      s2 == [s1 EXCEPT !.r_ab_inb = VecAdd(s1.r_ab_inb, MatVec(s1.C_ba, rhs1.r_ab_inb))]
  IN  reproject(s2, FALSE)
MulAssign(self, rhs, aliased) ==
  LET s1 == [self EXCEPT !.r_ab_inb = VecAdd(self.r_ab_inb, MatVec(self.C_ba, rhs.r_ab_inb))]
      rhs1 == IF aliased THEN s1 ELSE rhs
      s2 == [s1 EXCEPT !.C_ba = MatMul(s1.C_ba, rhs1.C_ba)]
  IN  reproject(s2, FALSE)

(* operator/= *)
DivAssignOldRotation(self, rhs, aliased) ==
  LET s1 == [self EXCEPT !.C_ba = MatMul(self.C_ba, Transpose(rhs.C_ba))]
      rhs1 == IF aliased THEN s1 ELSE rhs
      s2 == [s1 EXCEPT !.r_ab_inb =
               VecAdd(s1.r_ab_inb, MatVec(MatScale(Lift(0 - 1), self.C_ba), rhs1.r_ab_inb))]
  IN  reproject(s2, FALSE)
DivAssign(self, rhs, aliased) ==
  LET s1 == [self EXCEPT !.C_ba = MatMul(self.C_ba, Transpose(rhs.C_ba))]
      rhs1 == IF aliased THEN s1 ELSE rhs
      s2 == [s1 EXCEPT !.r_ab_inb =
               VecAdd(s1.r_ab_inb, MatVec(MatScale(Lift(0 - 1), s1.C_ba), rhs1.r_ab_inb))]
  IN  reproject(s2, FALSE)

(* operator*(const Eigen::Vector4d& p_a) *)
MulPointUnitScale(t, p_a) ==
  LET h == VecAdd(MatVec(t.C_ba, Head3(p_a)), t.r_ab_inb)
  IN  <<h[1], h[2], h[3], p_a[4]>>
MulPoint(t, p_a) ==
  LET h == VecAdd(MatVec(t.C_ba, Head3(p_a)), VecScale(p_a[4], t.r_ab_inb))
  IN  <<h[1], h[2], h[3], p_a[4]>>


(***************************************************************************)
(* so3::Rotation: the object holds C_ba_ alone.                            *)
(***************************************************************************)
RotIds == {"P", "Q"}
AaxisInputs == {<<0, 0, 1>>, <<0, 0, 0>>, <<3, 0, 0>>}
AaxisDynInputs ==
  {Resize(a, n) : a \in AaxisInputs, n \in (3 - MaxLenSlack)..(3 + MaxLenSlack)}
Point3Inputs == {LiftVec(<<1, 0, 2>>), LiftVec(<<0, 1, 0>>)}

(* Rotation(const Eigen::Matrix3d& C, bool reproj) *)
RotFromMatrix(C, reproj) == IF reproj THEN vec2rot(rot2vec(C), 0) ELSE C

(* Rotation(const Eigen::VectorXd& aaxis_ab): the dimension test. *)
AaxisDimWrong(a) == Len(a) # 3

(* What the two dimension tests throw. *)
RotationThrows == "std::logic_error"
TransformationThrows == "std::invalid_argument"

(* <stdexcept>: a handler for type h catches a thrown t when t is h or derives from it. *)
BaseClass(t) ==
  IF t = "std::invalid_argument" THEN "std::logic_error"
  ELSE IF t = "std::logic_error" THEN "std::exception"
  ELSE None
Catches(h, t) == t = h \/ BaseClass(t) = h \/ BaseClass(BaseClass(t)) = h

(* inverse(), operator*=, operator/=, operator*(Vector3d) *)
RotInverse(C) == Transpose(C)
RotMulAssign(self, rhs) == MatMul(self, rhs)
RotDivAssign(self, rhs) == MatMul(self, Transpose(rhs))
RotMulPoint(C, p_a) == MatVec(C, p_a)

(***************************************************************************)
(* State: the Transformation objects T, the Rotation objects R, the last   *)
(* call with what it was given, what it returned or threw and the calls it *)
(* made into the so3/se3 maps, and the number of calls made so far.        *)
(***************************************************************************)
Call(op, self, rhs, arg, pre, preRhs, value, thrown, calls) ==
  [op |-> op, self |-> self, rhs |-> rhs, arg |-> arg, pre |-> pre, preRhs |-> preRhs,
   value |-> value, thrown |-> thrown, calls |-> calls]

Init ==
  /\ T = [i \in TfIds |-> TfIdentity]
  /\ R = [i \in RotIds |-> Identity3]
  /\ ret = Call("Init", None, None, None, None, None, None, None, <<>>)
  /\ steps = 0

Step == steps < MaxSteps /\ steps' = steps + 1

(* Transformation() *)
TDefault(i) ==
  /\ Step
  /\ T' = [T EXCEPT ![i] = TfIdentity]
  /\ ret' = Call("Transformation()", i, None, None, None, None, None, None, <<>>)
  /\ UNCHANGED R

(* Transformation(const Eigen::Matrix4d&) *)
TFromMatrix4(i, M) ==
  /\ Step
  /\ CanReproject(Block33(M), FALSE)
  /\ T' = [T EXCEPT ![i] = FromMatrix4(M)]
  /\ ret' = Call("Transformation(Matrix4d)", i, None, M, None, None, None, None,
                 reprojectCalls(Block33(M), FALSE))
  /\ UNCHANGED R

(* Transformation(const Eigen::Matrix3d&, const Eigen::Vector3d&) *)
TFromCr(i, C, r) ==
  /\ Step
  /\ CanReproject(C, FALSE)
  /\ T' = [T EXCEPT ![i] = FromCr(C, r)]
  /\ ret' = Call("Transformation(Matrix3d,Vector3d)", i, None, <<C, r>>, None, None, None,
                 None, reprojectCalls(C, FALSE))
  /\ UNCHANGED R

(* Transformation(const Eigen::Matrix<double,6,1>&, unsigned int numTerms) *)
TFromXi(i, xi, numTerms) ==
  /\ Step
  /\ InTranDomain(xi, numTerms)
  /\ T' = [T EXCEPT ![i] = vec2tran(xi, numTerms)]
  /\ ret' = Call("Transformation(Vector6d,numTerms)", i, None, <<xi, numTerms>>, None, None,
                 None, None, <<<<"vec2tran", numTerms>>>>)
  /\ UNCHANGED R

(* Transformation(const Eigen::VectorXd&) *)
TFromVectorXd(i, xi) ==
  /\ Step
  /\ IF XiDimWrong(xi)
       THEN /\ T' = T
            /\ ret' = Call("Transformation(VectorXd)", i, None, xi, None, None, None,
                           TransformationThrows, <<>>)
       ELSE /\ InTranDomain(xi, 0)
            /\ T' = [T EXCEPT ![i] = vec2tran(xi, 0)]
            /\ ret' = Call("Transformation(VectorXd)", i, None, xi, None, None, None,
                           None, <<<<"vec2tran", 0>>>>)
  /\ UNCHANGED R

(* operator=(const Transformation&) *)
TAssign(i, j) ==
  /\ Step
  /\ T' = [T EXCEPT ![i] = T[j]]
  /\ ret' = Call("operator=", i, j, None, T[i], T[j], None, None, <<>>)
  /\ UNCHANGED R

(* operator=(Transformation&&), applied to the temporary the last call returned *)
TMoveAssign(i) ==
  /\ Step
  /\ ret.op \in {"inverse", "operator*", "operator/"}
  /\ T' = [T EXCEPT ![i] = ret.value]
  /\ ret' = Call("operator=&&", i, None, ret.value, T[i], None, None, None, <<>>)
  /\ UNCHANGED R

(* matrix() *)
TMatrix(i) ==
  /\ Step
  /\ ret' = Call("matrix", i, None, None, T[i], None, matrix(T[i]), None, <<>>)
  /\ UNCHANGED <<T, R>>

(* r_ba_ina() *)
TForward(i) ==
  /\ Step
  /\ ret' = Call("r_ba_ina", i, None, None, T[i], None, r_ba_ina(T[i]), None, <<>>)
  /\ UNCHANGED <<T, R>>

(* inverse() *)
TInverse(i) ==
  /\ Step
  /\ CanReproject(Transpose(T[i].C_ba), FALSE)
  /\ ret' = Call("inverse", i, None, None, T[i], None, inverse(T[i]), None,
                 reprojectCalls(Transpose(T[i].C_ba), FALSE))
  /\ UNCHANGED <<T, R>>

(* reproject(bool force) *)
TReproject(i, force) ==
  /\ Step
  /\ CanReproject(T[i].C_ba, force)
  /\ T' = [T EXCEPT ![i] = reproject(T[i], force)]
  /\ ret' = Call("reproject", i, None, force, T[i], None, None, None,
                 reprojectCalls(T[i].C_ba, force))
  /\ UNCHANGED R

(* operator*=(const Transformation& T_rhs) *)
TMulAssign(i, j) ==
  /\ Step
  /\ CanReproject(MatMul(T[i].C_ba, T[j].C_ba), FALSE)
  /\ T' = [T EXCEPT ![i] = MulAssign(T[i], T[j], i = j)]
  /\ ret' = Call("operator*=", i, j, None, T[i], T[j], None, None,
                 reprojectCalls(MatMul(T[i].C_ba, T[j].C_ba), FALSE))
  /\ UNCHANGED R

(* operator*(const Transformation& T_rhs) const: a copy of this object, then *= on the copy *)
TMul(i, j) ==
  /\ Step
  /\ CanReproject(MatMul(T[i].C_ba, T[j].C_ba), FALSE)
  /\ ret' = Call("operator*", i, j, None, T[i], T[j], MulAssign(T[i], T[j], FALSE), None,
                 reprojectCalls(MatMul(T[i].C_ba, T[j].C_ba), FALSE))
  /\ UNCHANGED <<T, R>>

(* operator/=(const Transformation& T_rhs) *)
TDivAssign(i, j) ==
  /\ Step
  /\ CanReproject(MatMul(T[i].C_ba, Transpose(T[j].C_ba)), FALSE)
  /\ T' = [T EXCEPT ![i] = DivAssign(T[i], T[j], i = j)]
  /\ ret' = Call("operator/=", i, j, None, T[i], T[j], None, None,
                 reprojectCalls(MatMul(T[i].C_ba, Transpose(T[j].C_ba)), FALSE))
  /\ UNCHANGED R

(* operator/(const Transformation& T_rhs) const: a copy of this object, then /= on the copy *)
TDiv(i, j) ==
  /\ Step
  /\ CanReproject(MatMul(T[i].C_ba, Transpose(T[j].C_ba)), FALSE)
  /\ ret' = Call("operator/", i, j, None, T[i], T[j], DivAssign(T[i], T[j], FALSE), None,
                 reprojectCalls(MatMul(T[i].C_ba, Transpose(T[j].C_ba)), FALSE))
  /\ UNCHANGED <<T, R>>

(* The expression T * T.inverse() *)
TMulInverse(i) ==
  /\ Step
  /\ CanReproject(Transpose(T[i].C_ba), FALSE)
  /\ CanReproject(MatMul(T[i].C_ba, inverse(T[i]).C_ba), FALSE)
  /\ ret' = Call("T*T.inverse()", i, None, None, T[i], None,
                 MulAssign(T[i], inverse(T[i]), FALSE), None, <<>>)
  /\ UNCHANGED <<T, R>>

(* operator*(const Eigen::Vector4d& p_a) const *)
TMulPoint(i, p) ==
  /\ Step
  /\ ret' = Call("operator*(Vector4d)", i, None, p, T[i], None, MulPoint(T[i], p), None, <<>>)
  /\ UNCHANGED <<T, R>>


(* Rotation() *)
RDefault(i) ==
  /\ Step
  /\ R' = [R EXCEPT ![i] = Identity3]
  /\ ret' = Call("Rotation()", i, None, None, None, None, None, None, <<>>)
  /\ UNCHANGED T

(* Rotation(const Eigen::Matrix3d& C, bool reproj) *)
RFromMatrix(i, C, reproj) ==
  /\ Step
  /\ reproj => InExpDomain(rot2vec(C))
  /\ R' = [R EXCEPT ![i] = RotFromMatrix(C, reproj)]
  /\ ret' = Call("Rotation(Matrix3d,reproj)", i, None, <<C, reproj>>, None, None, None, None,
                 IF reproj THEN <<"rot2vec", "vec2rot">> ELSE <<>>)
  /\ UNCHANGED T

(* Rotation(const Eigen::Vector3d& aaxis_ab, unsigned int numTerms) *)
RFromVec(i, a, numTerms) ==
  /\ Step
  /\ InExpDomain(AA("q", a))
  /\ numTerms > 0 => a = <<0, 0, 0>>
  /\ R' = [R EXCEPT ![i] = vec2rot(AA("q", a), numTerms)]
  /\ ret' = Call("Rotation(Vector3d,numTerms)", i, None, <<a, numTerms>>, None, None, None,
                 None, <<<<"vec2rot", numTerms>>>>)
  /\ UNCHANGED T

(* Rotation(const Eigen::VectorXd&); vec2rot is called with its default numTerms = 0 *)
RFromVectorXd(i, a) ==
  /\ Step
  /\ IF AaxisDimWrong(a)
       THEN /\ R' = R
            /\ ret' = Call("Rotation(VectorXd)", i, None, a, None, None, None,
                           RotationThrows, <<>>)
       ELSE /\ InExpDomain(AA("q", <<a[1], a[2], a[3]>>))
            /\ R' = [R EXCEPT ![i] = vec2rot(AA("q", <<a[1], a[2], a[3]>>), 0)]
            /\ ret' = Call("Rotation(VectorXd)", i, None, a, None, None, None, None,
                           <<<<"vec2rot", 0>>>>)
  /\ UNCHANGED T

(* operator=(Rotation C), given another object *)
RAssign(i, j) ==
  /\ Step
  /\ R' = [R EXCEPT ![i] = R[j]]
  /\ ret' = Call("Rotation::operator=", i, j, None, R[i], R[j], None, None, <<>>)
  /\ UNCHANGED T

(* operator=(Rotation C), given the temporary the last call returned *)
RAssignTemp(i) ==
  /\ Step
  /\ ret.op \in {"Rotation::inverse", "Rotation::operator*", "Rotation::operator/"}
  /\ R' = [R EXCEPT ![i] = ret.value]
  /\ ret' = Call("Rotation::operator=", i, None, ret.value, R[i], None, None, None, <<>>)
  /\ UNCHANGED T

(* inverse() const *)
RInverse(i) ==
  /\ Step
  /\ ret' = Call("Rotation::inverse", i, None, None, R[i], None, RotInverse(R[i]), None, <<>>)
  /\ UNCHANGED <<T, R>>

(* operator*=(const Rotation& C_rhs) *)
RMulAssign(i, j) ==
  /\ Step
  /\ R' = [R EXCEPT ![i] = RotMulAssign(R[i], R[j])]
  /\ ret' = Call("Rotation::operator*=", i, j, None, R[i], R[j], None, None, <<>>)
  /\ UNCHANGED T

(* operator*(const Rotation& C_rhs) const *)
RMul(i, j) ==
  /\ Step
  /\ ret' = Call("Rotation::operator*", i, j, None, R[i], R[j], RotMulAssign(R[i], R[j]),
                 None, <<>>)
  /\ UNCHANGED <<T, R>>

(* operator/=(const Rotation& C_rhs) *)
RDivAssign(i, j) ==
  /\ Step
  /\ R' = [R EXCEPT ![i] = RotDivAssign(R[i], R[j])]
  /\ ret' = Call("Rotation::operator/=", i, j, None, R[i], R[j], None, None, <<>>)
  /\ UNCHANGED T

(* operator/(const Rotation& C_rhs) const *)
RDiv(i, j) ==
  /\ Step
  /\ ret' = Call("Rotation::operator/", i, j, None, R[i], R[j], RotDivAssign(R[i], R[j]),
                 None, <<>>)
  /\ UNCHANGED <<T, R>>

(* operator*(const Eigen::Vector3d& p_a) const *)
RMulPoint(i, p) ==
  /\ Step
  /\ ret' = Call("Rotation::operator*(Vector3d)", i, None, p, R[i], None,
                 RotMulPoint(R[i], p), None, <<>>)
  /\ UNCHANGED <<T, R>>

NextSE3 ==
  \/ \E i \in TfIds : TDefault(i)
  \/ \E i \in TfIds, M \in Matrix4Inputs : TFromMatrix4(i, M)
  \/ \E i \in TfIds, C \in MatInputs, r \in VecInputs : TFromCr(i, C, r)
  \/ \E i \in TfIds, xi \in XiInputs, n \in TermInputs : TFromXi(i, xi, n)
  \/ \E i \in TfIds, xi \in XiDynInputs : TFromVectorXd(i, xi)
  \/ \E i \in TfIds, j \in TfIds : TAssign(i, j)
  \/ \E i \in TfIds : TMoveAssign(i)
  \/ \E i \in TfIds : TMatrix(i)
  \/ \E i \in TfIds : TForward(i)
  \/ \E i \in TfIds : TInverse(i)
  \/ \E i \in TfIds, force \in BOOLEAN : TReproject(i, force)
  \/ \E i \in TfIds, j \in TfIds : TMulAssign(i, j)
  \/ \E i \in TfIds, j \in TfIds : TMul(i, j)
  \/ \E i \in TfIds, j \in TfIds : TDivAssign(i, j)
  \/ \E i \in TfIds, j \in TfIds : TDiv(i, j)
  \/ \E i \in TfIds : TMulInverse(i)
  \/ \E i \in TfIds, p \in PointInputs : TMulPoint(i, p)

NextSO3 ==
  \/ \E i \in RotIds : RDefault(i)
  \/ \E i \in RotIds, C \in MatInputs, reproj \in BOOLEAN : RFromMatrix(i, C, reproj)
  \/ \E i \in RotIds, a \in AaxisInputs, n \in TermInputs : RFromVec(i, a, n)
  \/ \E i \in RotIds, a \in AaxisDynInputs : RFromVectorXd(i, a)
  \/ \E i \in RotIds, j \in RotIds : RAssign(i, j)
  \/ \E i \in RotIds : RAssignTemp(i)
  \/ \E i \in RotIds : RInverse(i)
  \/ \E i \in RotIds, j \in RotIds : RMulAssign(i, j)
  \/ \E i \in RotIds, j \in RotIds : RMul(i, j)
  \/ \E i \in RotIds, j \in RotIds : RDivAssign(i, j)
  \/ \E i \in RotIds, j \in RotIds : RDiv(i, j)
  \/ \E i \in RotIds, p \in Point3Inputs : RMulPoint(i, p)

(* Construction from dynamically sized vectors, of both wrappers. *)
NextDyn ==
  \/ \E i \in TfIds, xi \in XiDynInputs : TFromVectorXd(i, xi)
  \/ \E i \in RotIds, a \in AaxisDynInputs : RFromVectorXd(i, a)

Next == NextSE3 \/ NextSO3

Spec == Init /\ [][Next]_vars
SpecSE3 == Init /\ [][NextSE3]_vars
SpecSO3 == Init /\ [][NextSO3]_vars
SpecDyn == Init /\ [][NextDyn]_vars


(***************************************************************************)
(* Properties.                                                             *)
(***************************************************************************)
DetDeviation(C) == DAbs(DSub(One, Determinant(C)))
DetWithinTol(C) == ~DLess(DetTol, DetDeviation(C))
Gram(C) == MatMul(Transpose(C), C)
OrthoWithinTol(C) ==
  \A i \in 1..3, j \in 1..3 : ~DLess(DetTol, DAbs(DSub(Gram(C)[i][j], Identity3[i][j])))
NearSO3(C) == OrthoWithinTol(C) /\ DetWithinTol(C)
IsRotationMatrix(C) == Gram(C) = Identity3 /\ Determinant(C) = One
NegVec(v) == <<DNeg(v[1]), DNeg(v[2]), DNeg(v[3])>>
(* Equal to the identity transform up to terms of the order of the drift. *)
ApproxIdentity(t) ==
  /\ MainPart(t.C_ba) = MainPart(Identity3)
  /\ NearSO3(t.C_ba)
  /\ \A k \in 1..3 : t.r_ab_inb[k][1] = 0

(* C1: constructing a Rotation (Transformation) from a dynamically sized vector  *)
(* throws whenever its length is not 3 (6), before any call of the exponential   *)
(* map, and for the exact length stores the result of vec2rot (vec2tran) called  *)
(* with numTerms = 0.                                                            *)
C1_DimensionChecked ==
  /\ ret.op = "Rotation(VectorXd)" =>
       IF Len(ret.arg) # 3
         THEN ret.thrown # None /\ ret.calls = <<>>
         ELSE /\ ret.thrown = None
              /\ ret.calls = <<<<"vec2rot", 0>>>>
              /\ R[ret.self] = vec2rot(AA("q", <<ret.arg[1], ret.arg[2], ret.arg[3]>>), 0)
  /\ ret.op = "Transformation(VectorXd)" =>
       IF Len(ret.arg) # 6
         THEN ret.thrown # None /\ ret.calls = <<>>
         ELSE /\ ret.thrown = None
              /\ ret.calls = <<<<"vec2tran", 0>>>>
              /\ T[ret.self] = vec2tran(ret.arg, 0)
C1_Witness ==
  /\ ret.op = "Transformation(VectorXd)"
  /\ Len(ret.arg) = 7
  /\ ret.thrown # None
  /\ \E i \in RotIds : R[i] # Identity3

(* C2: reproject(force) replaces C_ba by vec2rot(rot2vec(C_ba)) exactly when     *)
(* force is set or |1 - det(C_ba)| > 1e-6, leaves it as it was otherwise, and    *)
(* never changes r_ab_inb; the same holds of the reproject(false) the Matrix4d   *)
(* constructor runs on the block it was given.                                   *)
ReprojectedAsClaimed(before, after, force, calls) ==
  LET must == force \/ DLess(DetTol, DetDeviation(before.C_ba))
  IN  /\ after.r_ab_inb = before.r_ab_inb
      /\ must => /\ calls = <<"rot2vec", "vec2rot">>
                 /\ after.C_ba = vec2rot(rot2vec(before.C_ba), 0)
      /\ ~must => calls = <<>> /\ after.C_ba = before.C_ba
C2_ReprojectCondition ==
  /\ ret.op = "reproject" => ReprojectedAsClaimed(ret.pre, T[ret.self], ret.arg, ret.calls)
  /\ ret.op = "Transformation(Matrix4d)" =>
       ReprojectedAsClaimed(Tf(Block33(ret.arg), Block31(ret.arg)), T[ret.self], FALSE,
                            ret.calls)
C2_Witness ==
  /\ ret.op = "reproject"
  /\ ret.arg = FALSE
  /\ DLess(Zero, DetDeviation(ret.pre.C_ba))
  /\ T[ret.self].C_ba = ret.pre.C_ba
  /\ ret.pre.r_ab_inb # ZeroVec

(* C3: group closure: a composition (operator*, *=, /, /=, inverse) of matrices   *)
(* that are within tolerance of SO(3) leaves the wrapper holding, or returns, a  *)
(* matrix with C^T C within tolerance of I and det within tolerance of 1.        *)
C3_GroupClosure ==
  /\ (/\ ret.op \in {"Rotation::operator*=", "Rotation::operator/="}
      /\ NearSO3(ret.pre) /\ NearSO3(ret.preRhs)) => NearSO3(R[ret.self])
  /\ (/\ ret.op \in {"Rotation::operator*", "Rotation::operator/"}
      /\ NearSO3(ret.pre) /\ NearSO3(ret.preRhs)) => NearSO3(ret.value)
  /\ (ret.op = "Rotation::inverse" /\ NearSO3(ret.pre)) => NearSO3(ret.value)
  /\ (/\ ret.op \in {"operator*=", "operator/="}
      /\ NearSO3(ret.pre.C_ba) /\ NearSO3(ret.preRhs.C_ba)) => NearSO3(T[ret.self].C_ba)
  /\ (/\ ret.op \in {"operator*", "operator/"}
      /\ NearSO3(ret.pre.C_ba) /\ NearSO3(ret.preRhs.C_ba)) => NearSO3(ret.value.C_ba)
  /\ (ret.op = "inverse" /\ NearSO3(ret.pre.C_ba)) => NearSO3(ret.value.C_ba)

C5_PointProduct ==
  ret.op = "operator*(Vector4d)" =>
    LET t == ret.pre
        p == ret.arg
        h == VecAdd(MatVec(t.C_ba, Head3(p)), VecScale(p[4], t.r_ab_inb))
    IN  /\ ret.value = MatVec4(matrix(t), p)
        /\ ret.value = <<h[1], h[2], h[3], p[4]>>
C5_Witness ==
  /\ ret.op = "operator*(Vector4d)"
  /\ ret.arg[4] = Lift(2)
  /\ ret.pre.C_ba # Identity3
  /\ ret.pre.r_ab_inb # ZeroVec

(* C6: both dimension failures raise the same invalid-argument kind: a handler   *)
(* for std::invalid_argument catches whatever either constructor throws.         *)
C6_SameErrorKind ==
  ret.thrown # None => Catches("std::invalid_argument", ret.thrown)

(* C7: when the rotation blocks of A and B and their product have determinant    *)
(* within 1e-6 of 1, A * B and A *= B give the transformation whose matrix is    *)
(* A.matrix() * B.matrix(), computed from the values held before the call (also  *)
(* when B is A itself); operator* changes neither operand and *= leaves another  *)
(* object B unchanged.                                                           *)
C7_Composition ==
  ret.op \in {"operator*=", "operator*"} =>
    LET A == ret.pre
        B == ret.preRhs
        res == IF ret.op = "operator*=" THEN T[ret.self] ELSE ret.value
    IN  (/\ DetWithinTol(A.C_ba) /\ DetWithinTol(B.C_ba)
         /\ DetWithinTol(MatMul(A.C_ba, B.C_ba))) =>
          /\ matrix(res) = MatMul4(matrix(A), matrix(B))
          /\ res.C_ba = MatMul(A.C_ba, B.C_ba)
          /\ res.r_ab_inb = VecAdd(A.r_ab_inb, MatVec(A.C_ba, B.r_ab_inb))
          /\ ret.rhs # ret.self => T[ret.rhs] = B
          /\ ret.op = "operator*" => T[ret.self] = A
C7_Witness ==
  /\ ret.op = "operator*="
  /\ ret.rhs = ret.self
  /\ DetWithinTol(MatMul(ret.pre.C_ba, ret.pre.C_ba))
  /\ ret.pre.C_ba # Identity3
  /\ ret.pre.r_ab_inb # ZeroVec
  /\ T[ret.self].r_ab_inb # ret.pre.r_ab_inb

(* C8: for orthonormal, determinant-1 rotation blocks A / B and A /= B give      *)
(* A * B.inverse(): rotation A.C * B.C^T and translation                         *)
(* A.r - A.C * B.C^T * B.r; A /= A leaves A the identity transform.              *)
C8_InverseComposition ==
  ret.op \in {"operator/=", "operator/"} =>
    LET A == ret.pre
        B == ret.preRhs
        res == IF ret.op = "operator/=" THEN T[ret.self] ELSE ret.value
        CBt == MatMul(A.C_ba, Transpose(B.C_ba))
    IN  (IsRotationMatrix(A.C_ba) /\ IsRotationMatrix(B.C_ba)) =>
          /\ res = MulAssign(A, inverse(B), FALSE)
          /\ res.C_ba = CBt
          /\ res.r_ab_inb = VecAdd(A.r_ab_inb, NegVec(MatVec(CBt, B.r_ab_inb)))
          /\ ret.rhs = ret.self => res = TfIdentity
C8_Witness ==
  /\ ret.op = "operator/="
  /\ ret.rhs # ret.self
  /\ IsRotationMatrix(ret.pre.C_ba) /\ IsRotationMatrix(ret.preRhs.C_ba)
  /\ MatMul(ret.pre.C_ba, ret.preRhs.C_ba) # MatMul(ret.preRhs.C_ba, ret.pre.C_ba)
  /\ ret.preRhs.r_ab_inb # ZeroVec

(* C9: Transformation(C_ba, r_ba_ina) stores r_ab_inb = -C * r_ba_ina for the    *)
(* rotation block C it stores, and for a rotation matrix C_ba the block stored   *)
(* is C_ba and r_ba_ina() returns the r_ba_ina that was passed.                  *)
C9_ForwardTranslation ==
  ret.op = "Transformation(Matrix3d,Vector3d)" =>
    LET C == ret.arg[1]
        r == ret.arg[2]
        t == T[ret.self]
    IN  /\ t.r_ab_inb = NegVec(MatVec(t.C_ba, r))
        /\ IsRotationMatrix(C) => t.C_ba = C /\ r_ba_ina(t) = r
C9_Witness ==
  /\ ret.op = "Transformation(Matrix3d,Vector3d)"
  /\ IsRotationMatrix(ret.arg[1])
  /\ T[ret.self].r_ab_inb # NegVec(ret.arg[2])

(* C10: every Transformation held, and every Transformation returned by          *)
(* inverse(), * or /, has |1 - det(C_ba)| <= 1e-6, whatever the determinants of  *)
(* the matrices the constructors and operators were given.                       *)
C10_DeterminantBound ==
  /\ \A i \in TfIds : DetWithinTol(T[i].C_ba)
  /\ ret.op \in {"inverse", "operator*", "operator/", "T*T.inverse()"} =>
       DetWithinTol(ret.value.C_ba)
C10_Witness ==
  /\ ret.op = "operator*="
  /\ ~DetWithinTol(MatMul(ret.pre.C_ba, ret.preRhs.C_ba))
  /\ DetWithinTol(T[ret.self].C_ba)


====
